---- MODULE Spec2Model ----
(***************************************************************************)
(* Model of the ENC comparison scripts: the filename codec                 *)
(* (test_script.py parse_filename, validate_files.py validate_filename),   *)
(* the per-system evaluation loop (evaluate_system), the report            *)
(* (generate_report) and the run driver (run_evaluation).                  *)
(*                                                                         *)
(* Strings of the program are sequences of one-character strings, so that  *)
(* stem(), upper(), key composition and Python's string order are computed *)
(* character by character.  Metrics (floats) are integers in units of      *)
(* 1/100000; the "%.4f" formatting rounds them to units of 1/10000.        *)
(***************************************************************************)
EXTENDS Integers, Sequences, FiniteSets, TLC

\* ------------------------------------------------------------------ bounds

\* longest stem body of a filename drawn for the codec specification
MaxStem == 4
\* most audio files one system directory holds
MaxFiles == 2

\* ------------------------------------------------------------------ characters

UpperCase == <<"A","B","C","D","E","F","G","H","I","J","K","L","M",
               "N","O","P","Q","R","S","T","U","V","W","X","Y","Z">>
LowerCase == <<"a","b","c","d","e","f","g","h","i","j","k","l","m",
               "n","o","p","q","r","s","t","u","v","w","x","y","z">>

IndexIn(c, s) == CHOOSE i \in 1..Len(s) : s[i] = c
IsIn(c, s) == \E i \in 1..Len(s) : s[i] = c

\* the characters the model uses
Chars ==
    {UpperCase[i] : i \in 1..Len(UpperCase)} \cup {LowerCase[i] : i \in 1..Len(LowerCase)}
        \cup {"_", ".", ",", " ", "?", "!", "3", "4"}

\* The Unicode code point of a character.
CodePoint(c) ==
    IF IsIn(c, UpperCase) THEN 64 + IndexIn(c, UpperCase)
    ELSE IF IsIn(c, LowerCase) THEN 96 + IndexIn(c, LowerCase)
    ELSE IF c = "_" THEN 95
    ELSE IF c = "?" THEN 63
    ELSE IF c = "4" THEN 52
    ELSE IF c = "3" THEN 51
    ELSE IF c = "." THEN 46
    ELSE IF c = "," THEN 44
    ELSE IF c = "!" THEN 33
    ELSE 32
OrdTable == [c \in Chars |-> CodePoint(c)]
ord(c) == OrdTable[c]

\* str.upper(), one character
UpperTable ==
    [c \in Chars |-> IF IsIn(c, LowerCase) THEN UpperCase[IndexIn(c, LowerCase)] ELSE c]
UpperChar(c) == UpperTable[c]

\* str.upper()
upper(s) == [i \in 1..Len(s) |-> UpperChar(s[i])]

\* Python's str < str: lexicographic by code point, a proper prefix first.
RECURSIVE StrLess(_, _)
StrLess(s, t) ==
    IF t = <<>> THEN FALSE
    ELSE IF s = <<>> THEN TRUE
    ELSE IF ord(Head(s)) # ord(Head(t)) THEN ord(Head(s)) < ord(Head(t))
    ELSE StrLess(Tail(s), Tail(t))

\* str.strip(): leading and trailing blanks removed
RECURSIVE lstrip(_)
lstrip(s) == IF s # <<>> /\ Head(s) = " " THEN lstrip(Tail(s)) ELSE s
RECURSIVE rstrip(_)
rstrip(s) == IF s # <<>> /\ s[Len(s)] = " " THEN rstrip(SubSeq(s, 1, Len(s) - 1)) ELSE s
strip(s) == rstrip(lstrip(s))

\* pathlib's PurePath.stem of a bare file name: the name up to its last dot,
\* unless that dot is the first or the last character.
LastDot(name) ==
    IF \E i \in 1..Len(name) : name[i] = "."
    THEN CHOOSE i \in 1..Len(name) :
            name[i] = "." /\ \A j \in (i + 1)..Len(name) : name[j] # "."
    ELSE 0
stem(name) ==
    LET i == LastDot(name)
    IN  IF 1 < i /\ i < Len(name) THEN SubSeq(name, 1, i - 1) ELSE name

\* dict.get(key, default)
Get(d, k, default) == IF k \in DOMAIN d THEN d[k] ELSE default

\* ------------------------------------------------------------------ labels

EN        == <<"E","N">>
EN_ACCENT == <<"E","N","_","A","C","C","E","N","T">>
CN        == <<"C","N">>
SV        == <<"S","V">>
REGULAR   == <<"R","E","G","U","L","A","R">>
QUIET     == <<"Q","U","I","E","T">>
WHISPER   == <<"W","H","I","S","P","E","R">>
NIGHTCLUB == <<"N","I","G","H","T","C","L","U","B">>
CAFE      == <<"C","A","F","E">>
SPEAKING  == <<"S","P","E","A","K","I","N","G">>
UNKNOWN   == <<"U","N","K","N","O","W","N">>

\* the tables of parse_filename (test_script.py)
language_map   == ("A" :> EN) @@ ("B" :> EN_ACCENT) @@ ("C" :> CN) @@ ("D" :> SV)
\* mutant of speech_map: C read as QUIET, B as WHISPER
speech_map_swapped == ("A" :> REGULAR) @@ ("B" :> WHISPER) @@ ("C" :> QUIET)
speech_map     == ("A" :> REGULAR) @@ ("B" :> QUIET) @@ ("C" :> WHISPER)
background_map == ("A" :> NIGHTCLUB) @@ ("B" :> CAFE) @@ ("C" :> SPEAKING)

\* the tables of validate_filename (validate_files.py), written out there again
v_language_map   == ("A" :> EN) @@ ("B" :> EN_ACCENT) @@ ("C" :> CN) @@ ("D" :> SV)
v_speech_map     == ("A" :> REGULAR) @@ ("B" :> QUIET) @@ ("C" :> WHISPER)
\* mutant of v_background_map: the strict table also accepts D
v_background_map_wide ==
    ("A" :> NIGHTCLUB) @@ ("B" :> CAFE) @@ ("C" :> SPEAKING) @@ ("D" :> SPEAKING)
v_background_map == ("A" :> NIGHTCLUB) @@ ("B" :> CAFE) @@ ("C" :> SPEAKING)

\* ------------------------------------------------------------------ codec

\* mutant of parse_filename: a longer stem is decoded from its first three
\* characters instead of being rejected
parse_filename_prefix(filename) ==
    LET name == upper(stem(filename))
    IN  IF Len(name) < 3 THEN <<>>
        ELSE [language    |-> Get(language_map, name[1], UNKNOWN),
              speech_type |-> Get(speech_map, name[2], UNKNOWN),
              background  |-> Get(background_map, name[3], UNKNOWN),
              filename    |-> filename]

\* ENCTestEvaluator.parse_filename: the empty dict for a stem that is not
\* three characters long, else the three labels (UNKNOWN for a symbol outside
\* its table) and the file name.
parse_filename(filename) ==
    LET name == upper(stem(filename))
    IN  IF Len(name) # 3 THEN <<>>
        ELSE [language    |-> Get(language_map, name[1], UNKNOWN),
              speech_type |-> Get(speech_map, name[2], UNKNOWN),
              background  |-> Get(background_map, name[3], UNKNOWN),
              filename    |-> filename]

\* The messages validate_filename builds; '; '.join(errors) is kept as the
\* sequence of the joined messages.
LengthError(n)       == [axis |-> "length", got |-> n]
AxisError(axis, code) == [axis |-> axis, got |-> code]

\* mutant of validate_filename: returns at the first axis in error
validate_filename_first(filename) ==
    LET name == upper(stem(filename))
    IN  IF Len(name) # 3
        THEN [valid |-> FALSE, error |-> <<LengthError(Len(name))>>]
        ELSE IF name[1] \notin DOMAIN v_language_map
        THEN [valid |-> FALSE, error |-> <<AxisError("language", name[1])>>]
        ELSE IF name[2] \notin DOMAIN v_speech_map
        THEN [valid |-> FALSE, error |-> <<AxisError("speech", name[2])>>]
        ELSE IF name[3] \notin DOMAIN v_background_map
        THEN [valid |-> FALSE, error |-> <<AxisError("background", name[3])>>]
        ELSE [valid       |-> TRUE,
              language    |-> v_language_map[name[1]],
              speech_type |-> v_speech_map[name[2]],
              background  |-> v_background_map[name[3]]]

validate_filename(filename) ==
    LET name == upper(stem(filename))
    IN  IF Len(name) # 3
        THEN [valid |-> FALSE, error |-> <<LengthError(Len(name))>>]
        ELSE LET e1 == IF name[1] \notin DOMAIN v_language_map
                       THEN <<AxisError("language", name[1])>> ELSE <<>>
                 e2 == IF name[2] \notin DOMAIN v_speech_map
                       THEN <<AxisError("speech", name[2])>> ELSE <<>>
                 e3 == IF name[3] \notin DOMAIN v_background_map
                       THEN <<AxisError("background", name[3])>> ELSE <<>>
                 errors == e1 \o e2 \o e3
             IN  IF errors # <<>>
                 THEN [valid |-> FALSE, error |-> errors]
                 ELSE [valid       |-> TRUE,
                       language    |-> v_language_map[name[1]],
                       speech_type |-> v_speech_map[name[2]],
                       background  |-> v_background_map[name[3]]]

\* ------------------------------------------------------------------ state

VARIABLES
    cx_filename,      \* codec runs: the file name handed to the codec
    cx_parsed,        \* codec runs: what parse_filename returned
    cx_validated,     \* codec runs: what validate_filename returned
    cx_done,          \* codec runs: which of the two functions have run
    pc,               \* run_evaluation: where the run is
    system_index,     \* run_evaluation: index of the system being evaluated
    audio_files,      \* evaluate_system: the units not yet processed
    system_results,   \* evaluate_system: the table being built
    results,          \* self.results: system -> table
    last,             \* the unit processed last and what the collaborators answered
    enc_test_report,  \* the report file: <<>> until written, then <<report>>
    enc_test_results, \* the results document: <<>> until written, then <<results>>
    exit_code,        \* test_script.py: <<>> while the process runs, then <<its exit code>>
    listing,          \* order runs: system -> the list get_audio_files returned for it
    answers,          \* order runs: unit -> what the collaborators answer for it
    demo_args,        \* demo_simple_asr.py: the command line and what it finds
    demo_pc,          \* demo_simple_asr.py: where main is
    demo_results,     \* demo_simple_asr.py: what process_audio_file returned
    demo_output,      \* demo_simple_asr.py: <<>> until --output is written, then <<results>>
    demo_exit         \* demo_simple_asr.py: <<>> while the process runs, then <<its exit code>>

vars == <<cx_filename, cx_parsed, cx_validated, cx_done, pc, system_index,
          audio_files, system_results, results, last, enc_test_report,
          enc_test_results, exit_code, listing, answers, demo_args, demo_pc,
          demo_results, demo_output, demo_exit>>

codec_vars == <<cx_filename, cx_parsed, cx_validated, cx_done>>
eval_vars  == <<pc, system_index, audio_files, system_results, results, last,
                enc_test_report, enc_test_results, exit_code>>
order_vars == <<listing, answers>>
demo_vars  == <<demo_args, demo_pc, demo_results, demo_output, demo_exit>>

\* ------------------------------------------------------------------ file names

WAV  == <<"w","a","v">>
MP3  == <<"m","p","3">>
M4A  == <<"m","4","a">>
FLAC == <<"f","l","a","c">>

\* the glob patterns of get_audio_files, in the order they are tried
Extensions == <<WAV, MP3, M4A, FLAC>>

FileName(body, ext) == body \o <<".">> \o ext

\* the characters a stem body is drawn from in the codec runs
StemAlphabet == {"A", "B", "C", "D", "X", "a", "c", "d"}

StemBodies == UNION {[1..n -> StemAlphabet] : n \in 1..MaxStem}

CodecFileNames ==
    {FileName(b, Extensions[e]) : b \in StemBodies, e \in 1..Len(Extensions)}

\* ------------------------------------------------------------------ metric adapter

\* 1.0, the score of a metric that could not be computed
ONE == 100000

LowerTable ==
    [c \in Chars |-> IF IsIn(c, UpperCase) THEN LowerCase[IndexIn(c, UpperCase)] ELSE c]
LowerChar(c) == LowerTable[c]

\* jiwer.ToLowerCase
ToLowerCase(s) == [i \in 1..Len(s) |-> LowerChar(s[i])]

\* jiwer.RemoveMultipleSpaces: a run of blanks becomes one blank
RECURSIVE RemoveMultipleSpaces(_)
RemoveMultipleSpaces(s) ==
    IF Len(s) < 2 THEN s
    ELSE IF s[1] = " " /\ s[2] = " " THEN RemoveMultipleSpaces(Tail(s))
    ELSE <<Head(s)>> \o RemoveMultipleSpaces(Tail(s))

Punctuation == {".", ",", "_", "?", "!"}

\* jiwer.RemovePunctuation
RECURSIVE RemovePunctuation(_)
RemovePunctuation(s) ==
    IF s = <<>> THEN <<>>
    ELSE IF Head(s) \in Punctuation THEN RemovePunctuation(Tail(s))
    ELSE <<Head(s)>> \o RemovePunctuation(Tail(s))

\* the jiwer.Compose pipeline of compute_wer and compute_cer
transformation(s) == RemovePunctuation(strip(RemoveMultipleSpaces(ToLowerCase(s))))

\* What the speech-to-text engine does for one unit: it raises, or it returns
\* a text.
WhisperOutcomes ==
    {[raise |-> TRUE, text |-> <<>>],
     [raise |-> FALSE, text |-> <<" ", " ">>],
     [raise |-> FALSE, text |-> <<" ", "o", "k">>]}

\* the ratios jiwer.wer / jiwer.cer return in the runs, in units of 1/100000
JiwerValues == {33333}

\* What the error-rate library does for one metric of one unit: it raises, or
\* it returns a ratio.
JiwerOutcomes ==
    {[raise |-> TRUE, value |-> 0]} \cup {[raise |-> FALSE, value |-> v] : v \in JiwerValues}

\* mutant of transcribe_audio: a failed transcription yields a placeholder text
transcribe_audio_placeholder(whisper) ==
    IF whisper.raise THEN <<"?">> ELSE
    IF strip(whisper.text) = <<>> THEN <<"?">> ELSE strip(whisper.text)

\* ENCTestEvaluator.transcribe_audio: the stripped text, "" when the engine raises
transcribe_audio(whisper) == IF whisper.raise THEN <<>> ELSE strip(whisper.text)

\* mutant of compute_wer: a failure of the library scores 0.0
compute_wer_zero(reference, hypothesis, jiwer) ==
    IF jiwer.raise THEN 0
    ELSE IF transformation(reference) = <<>> THEN ONE
    ELSE jiwer.value

\* ENCTestEvaluator.compute_wer
compute_wer(reference, hypothesis, jiwer) ==
    IF jiwer.raise THEN ONE
    ELSE IF transformation(reference) = <<>> THEN ONE
    ELSE jiwer.value

\* ENCTestEvaluator.compute_cer
compute_cer(reference, hypothesis, jiwer) ==
    IF jiwer.raise THEN ONE
    ELSE IF transformation(reference) = <<>> THEN ONE
    ELSE jiwer.value

\* ------------------------------------------------------------------ evaluator

\* self.test_phrases; each passage is cut to its first word
PhraseEN == <<"H", "e", "y", ",">>
PhraseCN == <<"g", "a", "n", "g">>
PhraseSV == <<"F", "i", "c", "k">>
test_phrases == (EN :> PhraseEN) @@ (CN :> PhraseCN) @@ (SV :> PhraseSV)

Systems == <<"skywalk", "nothing">>

\* the file names a system directory may hold in the runs
DirNames ==
    {FileName(<<"A","A","A">>, WAV),
     FileName(<<"a","a","a">>, MP3),
     FileName(<<"B","A","A">>, WAV),
     FileName(<<"A","X","B">>, WAV),
     FileName(<<"X","A","A">>, M4A),
     FileName(<<"A","A","A","B">>, FLAC)}

DirectoryContents == {D \in SUBSET DirNames : Cardinality(D) <= MaxFiles}

EndsWith(s, t) == Len(s) >= Len(t) /\ SubSeq(s, Len(s) - Len(t) + 1, Len(s)) = t

\* system_dir.glob('*.ext')
Glob(D, ext) == {f \in D : EndsWith(f, <<".">> \o ext)}

\* the orders in which the file system may list a set of files
Orderings(S) ==
    {o \in [1..Cardinality(S) -> S] : \A i, j \in 1..Cardinality(S) : i # j => o[i] # o[j]}

\* ENCTestEvaluator.get_audio_files: [] for a missing directory, else the
\* matches of the four patterns, one pattern after the other
get_audio_files(exists, D) ==
    IF ~exists THEN {<<>>}
    ELSE {o1 \o o2 \o o3 \o o4 :
            o1 \in Orderings(Glob(D, Extensions[1])),
            o2 \in Orderings(Glob(D, Extensions[2])),
            o3 \in Orderings(Glob(D, Extensions[3])),
            o4 \in Orderings(Glob(D, Extensions[4]))}

\* the f-string of evaluate_system that composes the key of a record
test_key(conditions) ==
    conditions.language \o <<"_">> \o conditions.speech_type
        \o <<"_">> \o conditions.background

\* mutant of reference_text: the passage is looked up under the decoded language
reference_text_plain(conditions) == Get(test_phrases, conditions.language, <<>>)

\* mutant of reference_text: a language without a passage gets the EN passage
reference_text_default(conditions) ==
    LET language == IF conditions.language = EN_ACCENT THEN EN ELSE conditions.language
    IN  Get(test_phrases, language, test_phrases[EN])

\* the reference passage evaluate_system looks up for a decoded unit
reference_text(conditions) ==
    LET language == IF conditions.language = EN_ACCENT THEN EN ELSE conditions.language
    IN  Get(test_phrases, language, <<>>)

\* What one pass of the loop of evaluate_system does with a unit.
UnitStep(audio_file, whisper) ==
    LET conditions == parse_filename(audio_file)
    IN  IF DOMAIN conditions = {} THEN "invalid_format"
        ELSE IF reference_text(conditions) = <<>> THEN "no_reference"
        ELSE IF transcribe_audio(whisper) = <<>> THEN "no_transcription"
        ELSE "scored"

\* the record evaluate_system stores for a scored unit
unit_record(audio_file, whisper, jiwer_wer, jiwer_cer) ==
    LET conditions == parse_filename(audio_file)
        reference == reference_text(conditions)
        transcription == transcribe_audio(whisper)
    IN  [filename      |-> audio_file,
         reference     |-> reference,
         transcription |-> transcription,
         wer           |-> compute_wer(reference, transcription, jiwer_wer),
         cer           |-> compute_cer(reference, transcription, jiwer_cer),
         conditions    |-> conditions]

\* mutant of evaluate_unit: a unit without a transcription removes the record
\* of its condition
evaluate_unit_drop(table, audio_file, whisper, jiwer_wer, jiwer_cer) ==
    IF UnitStep(audio_file, whisper) = "scored"
    THEN (test_key(parse_filename(audio_file))
            :> unit_record(audio_file, whisper, jiwer_wer, jiwer_cer)) @@ table
    ELSE IF UnitStep(audio_file, whisper) = "no_transcription"
    THEN [k \in DOMAIN table \ {test_key(parse_filename(audio_file))} |-> table[k]]
    ELSE table

\* mutant of evaluate_unit: the record of a condition is kept once it is stored
evaluate_unit_keepfirst(table, audio_file, whisper, jiwer_wer, jiwer_cer) ==
    IF UnitStep(audio_file, whisper) = "scored"
    THEN table @@ (test_key(parse_filename(audio_file))
                     :> unit_record(audio_file, whisper, jiwer_wer, jiwer_cer))
    ELSE table

\* One pass of the loop of evaluate_system: the table after the unit.
evaluate_unit(table, audio_file, whisper, jiwer_wer, jiwer_cer) ==
    IF UnitStep(audio_file, whisper) = "scored"
    THEN (test_key(parse_filename(audio_file))
            :> unit_record(audio_file, whisper, jiwer_wer, jiwer_cer)) @@ table
    ELSE table

\* the answers of the collaborators that were not called in a pass
NoWhisper == [raise |-> FALSE, text |-> <<>>]
NoJiwer   == [raise |-> FALSE, value |-> 0]

\* the unit of a pass with the answers of the collaborators it called
UnitLog(audio_file, whisper, jiwer_wer, jiwer_cer) ==
    LET step == UnitStep(audio_file, whisper)
    IN  [file      |-> audio_file,
         step      |-> step,
         whisper   |-> IF step \in {"no_transcription", "scored"} THEN whisper ELSE NoWhisper,
         jiwer_wer |-> IF step = "scored" THEN jiwer_wer ELSE NoJiwer,
         jiwer_cer |-> IF step = "scored" THEN jiwer_cer ELSE NoJiwer]

NoUnit == [file |-> <<>>, step |-> "none", whisper |-> NoWhisper,
           jiwer_wer |-> NoJiwer, jiwer_cer |-> NoJiwer]

\* ------------------------------------------------------------------ report

\* a / b rounded to the nearest integer, a tie to the even one (a >= 0, b > 0)
RoundDiv(a, b) ==
    LET q == a \div b
        r == a % b
    IN  IF 2 * r < b THEN q
        ELSE IF 2 * r > b THEN q + 1
        ELSE IF q % 2 = 0 THEN q ELSE q + 1

\* f"{x:.4f}": the digits of x in units of 1/10000
Fmt4(x) == RoundDiv(x, 10)

\* f"{sum / n:.4f}"
FmtAvg(sum, n) == RoundDiv(sum, 10 * n)

\* f"{x:+.4f}": the sign and the digits
FmtSigned(x) ==
    [sign |-> IF x < 0 THEN "-" ELSE "+", digits |-> RoundDiv(IF x < 0 THEN 0 - x ELSE x, 10)]

RECURSIVE SumWer(_, _)
SumWer(table, keys) ==
    IF keys = {} THEN 0
    ELSE LET k == CHOOSE x \in keys : TRUE
         IN  table[k].wer + SumWer(table, keys \ {k})

RECURSIVE SumCer(_, _)
SumCer(table, keys) ==
    IF keys = {} THEN 0
    ELSE LET k == CHOOSE x \in keys : TRUE
         IN  table[k].cer + SumCer(table, keys \ {k})

\* mutant of sorted: the keys in decreasing str order
RECURSIVE sorted_reverse(_)
sorted_reverse(S) ==
    IF S = {} THEN <<>>
    ELSE LET greatest == CHOOSE x \in S : \A y \in S \ {x} : StrLess(y, x)
         IN  <<greatest>> \o sorted_reverse(S \ {greatest})

\* sorted(all_conditions): the keys in increasing str order
RECURSIVE sorted(_)
sorted(S) ==
    IF S = {} THEN <<>>
    ELSE LET least == CHOOSE x \in S : \A y \in S \ {x} : StrLess(x, y)
         IN  <<least>> \o sorted(S \ {least})

\* the summary block of one system
SummaryLines(res, system) ==
    LET table == res[system]
        total_files == Cardinality(DOMAIN table)
    IN  IF DOMAIN table # {}
        THEN <<[system      |-> system,
                total_files |-> total_files,
                avg_wer     |-> FmtAvg(SumWer(table, DOMAIN table), total_files),
                avg_cer     |-> FmtAvg(SumCer(table, DOMAIN table), total_files)]>>
        ELSE <<>>

\* the line of one system under a test condition
SystemLine(res, system, condition) ==
    IF condition \in DOMAIN res[system]
    THEN [kind |-> system,
          wer  |-> Fmt4(res[system][condition].wer),
          cer  |-> Fmt4(res[system][condition].cer)]
    ELSE [kind |-> system, text |-> "No data"]

\* mutant of ImprovementLines: the delta is skywalk minus nothing
ImprovementLines_reversed(res, condition) ==
    IF condition \in DOMAIN res.skywalk /\ condition \in DOMAIN res.nothing
    THEN <<[kind |-> "improvement",
            wer  |-> FmtSigned(res.skywalk[condition].wer - res.nothing[condition].wer),
            cer  |-> FmtSigned(res.skywalk[condition].cer - res.nothing[condition].cer)]>>
    ELSE <<>>

\* the improvement line of a test condition both systems have a record of
ImprovementLines(res, condition) ==
    IF condition \in DOMAIN res.skywalk /\ condition \in DOMAIN res.nothing
    THEN <<[kind |-> "improvement",
            wer  |-> FmtSigned(res.nothing[condition].wer - res.skywalk[condition].wer),
            cer  |-> FmtSigned(res.nothing[condition].cer - res.skywalk[condition].cer)]>>
    ELSE <<>>

\* the lines of one test condition
ConditionLines(res, condition) ==
    <<[kind |-> "condition", key |-> condition],
      SystemLine(res, "skywalk", condition),
      SystemLine(res, "nothing", condition)>>
    \o ImprovementLines(res, condition)

RECURSIVE DetailLines(_, _)
DetailLines(res, conditions) ==
    IF conditions = <<>> THEN <<>>
    ELSE ConditionLines(res, Head(conditions)) \o DetailLines(res, Tail(conditions))

\* mutant of LanguageAvgLines: a system without a record of the language gets
\* an average of 0.0
LanguageAvgLines_zero(res, system, language) ==
    LET table == res[system]
        lang_results == {k \in DOMAIN table : table[k].conditions.language = language}
    IN  IF lang_results # {}
        THEN <<[kind |-> system,
                wer  |-> FmtAvg(SumWer(table, lang_results), Cardinality(lang_results)),
                cer  |-> FmtAvg(SumCer(table, lang_results), Cardinality(lang_results))]>>
        ELSE <<[kind |-> system, wer |-> 0, cer |-> 0]>>

\* the average line of one system under a language: no line when the system
\* has no record of the language
LanguageAvgLines(res, system, language) ==
    LET table == res[system]
        lang_results == {k \in DOMAIN table : table[k].conditions.language = language}
    IN  IF lang_results # {}
        THEN <<[kind |-> system,
                wer  |-> FmtAvg(SumWer(table, lang_results), Cardinality(lang_results)),
                cer  |-> FmtAvg(SumCer(table, lang_results), Cardinality(lang_results))]>>
        ELSE <<>>

\* the lines of one language
LanguageLines(res, language) ==
    <<[kind |-> "language", language |-> language]>>
    \o LanguageAvgLines(res, "skywalk", language)
    \o LanguageAvgLines(res, "nothing", language)

\* the languages of the last section, in the order of the loop
ReportLanguages == <<EN, EN_ACCENT, CN, SV>>

\* ENCTestEvaluator.generate_report: the three sections after the header
generate_report(res) ==
    LET all_conditions == DOMAIN res.skywalk \cup DOMAIN res.nothing
    IN  [summary     |-> SummaryLines(res, "skywalk") \o SummaryLines(res, "nothing"),
         detail      |-> DetailLines(res, sorted(all_conditions)),
         by_language |-> LanguageLines(res, ReportLanguages[1])
                         \o LanguageLines(res, ReportLanguages[2])
                         \o LanguageLines(res, ReportLanguages[3])
                         \o LanguageLines(res, ReportLanguages[4])]

\* ------------------------------------------------------------------ run_evaluation

InitOrderIdle ==
    /\ listing = [skywalk |-> <<>>, nothing |-> <<>>]
    /\ answers = <<>>

InitDemoIdle ==
    /\ demo_args = <<>>
    /\ demo_pc = "idle"
    /\ demo_results = <<>>
    /\ demo_output = <<>>
    /\ demo_exit = <<>>

Init ==
    /\ cx_filename = <<>>
    /\ cx_parsed = <<>>
    /\ cx_validated = <<>>
    /\ cx_done = {}
    /\ pc = "start"
    /\ system_index = 1
    /\ audio_files = <<>>
    /\ system_results = <<>>
    /\ results = [skywalk |-> <<>>, nothing |-> <<>>]
    /\ last = NoUnit
    /\ enc_test_report = <<>>
    /\ enc_test_results = <<>>
    /\ exit_code = <<>>
    /\ InitOrderIdle
    /\ InitDemoIdle

\* check_dependencies: the imports succeed or one of them fails; on a failure
\* run_evaluation returns {} and main prints its message and returns
CheckDependencies ==
    /\ pc = "start"
    /\ \E available \in BOOLEAN :
          /\ pc' = IF available THEN "evaluate" ELSE "failed"
          /\ exit_code' = IF available THEN exit_code ELSE <<0>>
    /\ UNCHANGED <<system_index, audio_files, system_results, results, last,
                   enc_test_report, enc_test_results>>
    /\ UNCHANGED <<codec_vars, order_vars, demo_vars>>

\* every list get_audio_files may return in the runs
AudioFileLists ==
    UNION {get_audio_files(exists, D) : exists \in BOOLEAN, D \in DirectoryContents}

\* evaluate_system up to its loop: the units of the system are listed
EvaluateSystem ==
    /\ pc = "evaluate"
    /\ audio_files' \in AudioFileLists
    /\ system_results' = <<>>
    /\ pc' = "loop"
    /\ UNCHANGED <<system_index, results, last, enc_test_report, enc_test_results,
                   exit_code>>
    /\ UNCHANGED <<codec_vars, order_vars, demo_vars>>

\* the answers the engine may give in a pass, none when the pass skips the
\* unit before transcribing it
WhisperAnswers(audio_file) ==
    IF UnitStep(audio_file, NoWhisper) \in {"invalid_format", "no_reference"}
    THEN {NoWhisper} ELSE WhisperOutcomes

\* the answers the error-rate library may give in a pass, none when the pass
\* does not score the unit
JiwerAnswers(audio_file, whisper) ==
    IF UnitStep(audio_file, whisper) = "scored" THEN JiwerOutcomes ELSE {NoJiwer}

\* one pass of the loop of evaluate_system
ProcessUnit ==
    /\ pc = "loop"
    /\ audio_files # <<>>
    /\ \E whisper \in WhisperAnswers(Head(audio_files)) :
       \E jiwer_wer \in JiwerAnswers(Head(audio_files), whisper) :
       \E jiwer_cer \in JiwerAnswers(Head(audio_files), whisper) :
          /\ system_results' =
                evaluate_unit(system_results, Head(audio_files), whisper, jiwer_wer, jiwer_cer)
          /\ last' = UnitLog(Head(audio_files), whisper, jiwer_wer, jiwer_cer)
    /\ audio_files' = Tail(audio_files)
    /\ UNCHANGED <<pc, system_index, results, enc_test_report, enc_test_results,
                   exit_code>>
    /\ UNCHANGED <<codec_vars, order_vars, demo_vars>>

\* mutant of StoreSystemResults: the table is stored for both systems
StoreSystemResults_both ==
    /\ pc = "loop"
    /\ audio_files = <<>>
    /\ results' = [skywalk |-> system_results, nothing |-> system_results]
    /\ system_results' = <<>>
    /\ last' = NoUnit
    /\ IF system_index < Len(Systems)
       THEN system_index' = system_index + 1 /\ pc' = "evaluate"
       ELSE system_index' = system_index /\ pc' = "report"
    /\ UNCHANGED <<audio_files, enc_test_report, enc_test_results, exit_code>>
    /\ UNCHANGED <<codec_vars, order_vars, demo_vars>>

\* evaluate_system returns and run_evaluation stores the table
StoreSystemResults ==
    /\ pc = "loop"
    /\ audio_files = <<>>
    /\ results' = [results EXCEPT ![Systems[system_index]] = system_results]
    /\ system_results' = <<>>
    /\ last' = NoUnit
    /\ IF system_index < Len(Systems)
       THEN system_index' = system_index + 1 /\ pc' = "evaluate"
       ELSE system_index' = system_index /\ pc' = "report"
    /\ UNCHANGED <<audio_files, enc_test_report, enc_test_results, exit_code>>
    /\ UNCHANGED <<codec_vars, order_vars, demo_vars>>

\* run_evaluation generates the report and writes enc_test_report.txt
GenerateReport ==
    /\ pc = "report"
    /\ enc_test_report' = <<generate_report(results)>>
    /\ pc' = "save"
    /\ UNCHANGED <<system_index, audio_files, system_results, results, last,
                   enc_test_results, exit_code>>
    /\ UNCHANGED <<codec_vars, order_vars, demo_vars>>

\* save_results writes enc_test_results.json, run_evaluation returns the
\* tables and main prints its message and returns
SaveResults ==
    /\ pc = "save"
    /\ enc_test_results' = <<results>>
    /\ pc' = "done"
    /\ exit_code' = <<0>>
    /\ UNCHANGED <<system_index, audio_files, system_results, results, last,
                   enc_test_report>>
    /\ UNCHANGED <<codec_vars, order_vars, demo_vars>>

Next ==
    \/ CheckDependencies
    \/ EvaluateSystem
    \/ ProcessUnit
    \/ StoreSystemResults
    \/ GenerateReport
    \/ SaveResults

Spec == Init /\ [][Next]_vars

\* ------------------------------------------------------------------ codec runs

InitEvalIdle ==
    /\ pc = "start"
    /\ system_index = 1
    /\ audio_files = <<>>
    /\ system_results = <<>>
    /\ results = [skywalk |-> <<>>, nothing |-> <<>>]
    /\ last = NoUnit
    /\ enc_test_report = <<>>
    /\ enc_test_results = <<>>
    /\ exit_code = <<>>

InitCodec ==
    /\ cx_filename \in CodecFileNames
    /\ cx_parsed = <<>>
    /\ cx_validated = <<>>
    /\ cx_done = {}
    /\ InitEvalIdle
    /\ InitOrderIdle
    /\ InitDemoIdle

RunParse ==
    /\ "parse" \notin cx_done
    /\ cx_parsed' = parse_filename(cx_filename)
    /\ cx_done' = cx_done \cup {"parse"}
    /\ UNCHANGED <<cx_filename, cx_validated>>
    /\ UNCHANGED <<eval_vars, order_vars, demo_vars>>

RunValidate ==
    /\ "validate" \notin cx_done
    /\ cx_validated' = validate_filename(cx_filename)
    /\ cx_done' = cx_done \cup {"validate"}
    /\ UNCHANGED <<cx_filename, cx_parsed>>
    /\ UNCHANGED <<eval_vars, order_vars, demo_vars>>

NextCodec == RunParse \/ RunValidate

SpecCodec == InitCodec /\ [][NextCodec]_vars

\* ------------------------------------------------------------------ codec claims

\* the code tables as the specification prints them, with both letter cases
TableLanguage(c) ==
    IF c \in {"A", "a"} THEN EN
    ELSE IF c \in {"B", "b"} THEN EN_ACCENT
    ELSE IF c \in {"C", "c"} THEN CN
    ELSE IF c \in {"D", "d"} THEN SV
    ELSE UNKNOWN
TableSpeech(c) ==
    IF c \in {"A", "a"} THEN REGULAR
    ELSE IF c \in {"B", "b"} THEN QUIET
    ELSE IF c \in {"C", "c"} THEN WHISPER
    ELSE UNKNOWN
TableBackground(c) ==
    IF c \in {"A", "a"} THEN NIGHTCLUB
    ELSE IF c \in {"B", "b"} THEN CAFE
    ELSE IF c \in {"C", "c"} THEN SPEAKING
    ELSE UNKNOWN

\* a dict returned by parse_filename that holds a condition (not the empty dict)
IsCondition(c) == DOMAIN c # {}
Triple(c) == <<c.language, c.speech_type, c.background>>
HasUnknown(c) == \E i \in 1..3 : Triple(c)[i] = UNKNOWN

\* the file name is a three-character body, a dot and one of the extensions
HasBody3(filename) ==
    /\ Len(filename) > 3
    /\ \E e \in 1..Len(Extensions) :
          filename = FileName(SubSeq(filename, 1, 3), Extensions[e])
ValidBody(b) ==
    /\ TableLanguage(b[1]) # UNKNOWN
    /\ TableSpeech(b[2]) # UNKNOWN
    /\ TableBackground(b[3]) # UNKNOWN

C2_PrefixDecoded ==
    LET name == upper(stem(cx_filename))
    IN  ("parse" \in cx_done /\ Len(name) > 3) =>
            /\ IsCondition(cx_parsed)
            /\ Triple(cx_parsed) =
                  <<TableLanguage(name[1]), TableSpeech(name[2]), TableBackground(name[3])>>

\* C2 amended: for every file name whose stem is longer than three characters,
\* parse_filename returns the empty dict: no axis is decoded, not even from
\* the first three characters.
C2_LongStemRejected ==
    LET name == upper(stem(cx_filename))
    IN  ("parse" \in cx_done /\ Len(name) > 3) => ~IsCondition(cx_parsed)

C2_Witness ==
    /\ "parse" \in cx_done
    /\ cx_filename = FileName(<<"A","C","B","X">>, WAV)
    /\ ~IsCondition(cx_parsed)

\* the axes whose symbol is outside the table, in the order language, speech,
\* background
AxesInError(name) ==
    (IF TableLanguage(name[1]) = UNKNOWN
     THEN <<[axis |-> "language", got |-> name[1]]>> ELSE <<>>)
    \o (IF TableSpeech(name[2]) = UNKNOWN
        THEN <<[axis |-> "speech", got |-> name[2]]>> ELSE <<>>)
    \o (IF TableBackground(name[3]) = UNKNOWN
        THEN <<[axis |-> "background", got |-> name[3]]>> ELSE <<>>)

\* C3: validate_filename reports exactly one length error and no axis error
\* when the stem is not three characters long; for a three-character stem it
\* reports one error for every axis whose symbol is outside its table, all of
\* them, and it is valid exactly when no axis is in error.
C3_ValidateErrors ==
    LET name == upper(stem(cx_filename))
        r == cx_validated
    IN  "validate" \in cx_done =>
            IF Len(name) # 3
            THEN /\ ~r.valid
                 /\ Len(r.error) = 1
                 /\ r.error[1].axis = "length"
            ELSE /\ r.valid <=> AxesInError(name) = <<>>
                 /\ ~r.valid => r.error = AxesInError(name)

C3_Witness ==
    /\ "validate" \in cx_done
    /\ cx_filename = FileName(<<"X","X","X">>, WAV)
    /\ ~cx_validated.valid
    /\ Len(cx_validated.error) = 3
    /\ cx_validated.error[1].axis = "language"
    /\ cx_validated.error[2].axis = "speech"
    /\ cx_validated.error[3].axis = "background"

\* C4: validate_filename reports valid if and only if parse_filename returns a
\* condition with no UNKNOWN axis, and then both give the same (language,
\* speech_type, background).
C4_ValidateAgreesWithParse ==
    cx_done = {"parse", "validate"} =>
        /\ cx_validated.valid <=> (IsCondition(cx_parsed) /\ ~HasUnknown(cx_parsed))
        /\ cx_validated.valid => Triple(cx_validated) = Triple(cx_parsed)

C4_Witness ==
    /\ cx_done = {"parse", "validate"}
    /\ cx_validated.valid
    /\ IsCondition(cx_parsed)
    /\ Triple(cx_parsed) = <<SV, WHISPER, NIGHTCLUB>>
    /\ Triple(cx_validated) = <<SV, WHISPER, NIGHTCLUB>>

\* ------------------------------------------------------------------ evaluation claims

\* the tables of the run: the one being built and the two stored ones
Tables == {system_results, results.skywalk, results.nothing}

\* C5 as written: a unit whose file name decodes with UNKNOWN on any axis is
\* skipped, so no record of any table carries UNKNOWN on an axis.
C5_UnknownNeverStored ==
    /\ last.step = "scored" => ~HasUnknown(parse_filename(last.file))
    /\ \A table \in Tables : \A k \in DOMAIN table : ~HasUnknown(table[k].conditions)

AllBlank(text) == \A i \in 1..Len(text) : text[i] = " "

\* the pass that ended in the primed state called the engine
Transcribed == last'.step \in {"no_transcription", "scored"}

\* C6: when the transcription of a unit fails or is empty, the pass stores no
\* record (so none with a metric of 1.0): the table is as it was before the
\* unit, and the loop goes on with the next unit.
C6_FailedTranscriptionSkipped ==
    [][(/\ pc = "loop"
        /\ audio_files # <<>>
        /\ last'.file = Head(audio_files)
        /\ Transcribed
        /\ last'.whisper.raise \/ AllBlank(last'.whisper.text))
       => (/\ system_results' = system_results
           /\ results' = results
           /\ pc' = "loop"
           /\ audio_files' = Tail(audio_files))]_vars

C6_Witness ==
    /\ pc = "loop"
    /\ last.step = "no_transcription"
    /\ last.whisper.raise
    /\ DOMAIN system_results # {}
    /\ \A k \in DOMAIN system_results : system_results[k].filename # last.file

\* the score the evaluator is to record for a metric, given what the library did
Recorded(jiwer) == IF jiwer.raise THEN ONE ELSE jiwer.value

\* C7: when the error-rate library fails on one metric of a unit, that metric
\* is recorded as 1.0, the other metric keeps the value the library computed,
\* the record is stored, and the loop goes on.
C7_MetricFailureIsOne ==
    last.step = "scored" =>
        /\ pc = "loop"
        /\ \E k \in DOMAIN system_results :
              /\ system_results[k].filename = last.file
              /\ system_results[k].wer = Recorded(last.jiwer_wer)
              /\ system_results[k].cer = Recorded(last.jiwer_cer)

C7_Witness ==
    /\ last.step = "scored"
    /\ last.jiwer_wer.raise
    /\ ~last.jiwer_cer.raise
    /\ audio_files # <<>>
    /\ \E k \in DOMAIN system_results :
          /\ system_results[k].filename = last.file
          /\ system_results[k].wer = ONE
          /\ system_results[k].cer < ONE

\* ------------------------------------------------------------------ report claims

Reported == pc \in {"save", "done"}
Detail == enc_test_report[1].detail
ByLanguage == enc_test_report[1].by_language
AllKeys == DOMAIN results.skywalk \cup DOMAIN results.nothing

\* the positions of the "Test Condition:" lines
CondIdx == {i \in 1..Len(Detail) : Detail[i].kind = "condition"}

NoData(line) == "text" \in DOMAIN line /\ line.text = "No data"

\* the line of a system under the condition line at i is right
SystemShown(i, line, system) ==
    /\ line.kind = system
    /\ IF Detail[i].key \in DOMAIN results[system]
       THEN /\ ~NoData(line)
            /\ line.wer = Fmt4(results[system][Detail[i].key].wer)
            /\ line.cer = Fmt4(results[system][Detail[i].key].cer)
       ELSE NoData(line)

HasDelta(i) == i + 3 <= Len(Detail) /\ Detail[i + 3].kind = "improvement"

\* C8: the per-condition section lists exactly the union of the keys of the
\* two tables, each once; under each key a system shows its (wer, cer) when it
\* has a record and "No data" when not; the delta line is there if and only if
\* both have a record, and it shows nothing minus skywalk, WER and CER apart.
C8_ConditionSection ==
    Reported =>
        /\ {Detail[i].key : i \in CondIdx} = AllKeys
        /\ Cardinality(CondIdx) = Cardinality(AllKeys)
        /\ \A i \in 1..Len(Detail) :
              Detail[i].kind = "improvement" => (i - 3) \in CondIdx
        /\ \A i \in CondIdx :
              LET k == Detail[i].key
                  both == k \in DOMAIN results.skywalk /\ k \in DOMAIN results.nothing
              IN  /\ i + 2 <= Len(Detail)
                  /\ SystemShown(i, Detail[i + 1], "skywalk")
                  /\ SystemShown(i, Detail[i + 2], "nothing")
                  /\ HasDelta(i) <=> both
                  /\ both =>
                        /\ Detail[i + 3].wer =
                              FmtSigned(results.nothing[k].wer - results.skywalk[k].wer)
                        /\ Detail[i + 3].cer =
                              FmtSigned(results.nothing[k].cer - results.skywalk[k].cer)

C8_Witness ==
    /\ pc = "done"
    /\ \E x, y, z \in AllKeys :
          /\ x # y /\ y # z /\ x # z
          /\ DOMAIN results.skywalk = {x, y}
          /\ DOMAIN results.nothing = {y, z}
          /\ results.nothing[y].wer > results.skywalk[y].wer
          /\ results.nothing[y].cer < results.skywalk[y].cer
          /\ \E i \in CondIdx :
                /\ Detail[i].key = y
                /\ HasDelta(i)
                /\ Detail[i + 3].wer.sign = "+"
                /\ Detail[i + 3].cer.sign = "-"
          /\ \E i \in CondIdx : Detail[i].key = x /\ NoData(Detail[i + 2])
          /\ \E i \in CondIdx : Detail[i].key = z /\ NoData(Detail[i + 1])

\* the condition a key of the tables stands for
ConditionOf(k) ==
    IF k \in DOMAIN results.skywalk
    THEN results.skywalk[k].conditions ELSE results.nothing[k].conditions

\* the order of the triple (language, speech_type, background), axis by axis
TripleLess(c, d) ==
    IF c.language # d.language THEN StrLess(c.language, d.language)
    ELSE IF c.speech_type # d.speech_type THEN StrLess(c.speech_type, d.speech_type)
    ELSE StrLess(c.background, d.background)

\* C9 as written: the per-condition section lists the keys in the order of
\* the triple compared axis by axis, so every EN condition comes before every
\* EN_ACCENT condition.
C9_TripleOrder ==
    Reported =>
        \A i, j \in CondIdx :
            i < j => TripleLess(ConditionOf(Detail[i].key), ConditionOf(Detail[j].key))

\* the order of the composed keys: as the triple order, but EN_ACCENT before EN
KeyLess(c, d) ==
    IF c.language # d.language
    THEN IF {c.language, d.language} = {EN, EN_ACCENT}
         THEN c.language = EN_ACCENT
         ELSE StrLess(c.language, d.language)
    ELSE IF c.speech_type # d.speech_type THEN StrLess(c.speech_type, d.speech_type)
    ELSE StrLess(c.background, d.background)

\* C9 amended: the per-condition section lists the keys in the code-point
\* order of the composed string language_speech_background; that is the order
\* of the triple except that every EN_ACCENT condition comes before every EN
\* condition.
C9_KeyStringOrder ==
    Reported =>
        \A i, j \in CondIdx :
            i < j =>
                /\ StrLess(Detail[i].key, Detail[j].key)
                /\ KeyLess(ConditionOf(Detail[i].key), ConditionOf(Detail[j].key))

C9_Witness ==
    /\ pc = "done"
    /\ \E i, j \in CondIdx :
          /\ i < j
          /\ ConditionOf(Detail[i].key).language = EN_ACCENT
          /\ ConditionOf(Detail[j].key).language = EN

\* the positions of the language headings
LangIdx == {i \in 1..Len(ByLanguage) : ByLanguage[i].kind = "language"}

\* the lines under the heading at i: up to the next heading
BlockOf(i) ==
    {j \in (i + 1)..Len(ByLanguage) :
        \A h \in (i + 1)..j : ByLanguage[h].kind # "language"}

\* the records a system has of a language
RecordsOf(system, language) ==
    {k \in DOMAIN results[system] : results[system][k].conditions.language = language}

\* C10 as written: in the per-language section, a system with zero records of
\* a language has a line that states "no data" under that language.
C10_NoDataStated ==
    Reported =>
        \A i \in LangIdx : \A system \in {"skywalk", "nothing"} :
            RecordsOf(system, ByLanguage[i].language) = {} =>
                \E j \in BlockOf(i) :
                    ByLanguage[j].kind = system /\ NoData(ByLanguage[j])

\* C10 amended: the per-language section has one heading for each of the four
\* languages; under it a system with zero records of the language has no line
\* at all (no "no data" line and no 0.0 or NaN average), and a system with
\* records has one line with the rounded means of its records of the language.
C10_NoLineWithoutRecords ==
    Reported =>
        /\ {ByLanguage[i].language : i \in LangIdx} = {EN, EN_ACCENT, CN, SV}
        /\ Cardinality(LangIdx) = 4
        /\ \A i \in LangIdx : \A system \in {"skywalk", "nothing"} :
              LET recs == RecordsOf(system, ByLanguage[i].language)
                  shown == {j \in BlockOf(i) : ByLanguage[j].kind = system}
              IN  IF recs = {}
                  THEN shown = {}
                  ELSE /\ Cardinality(shown) = 1
                       /\ \A j \in shown :
                             /\ ~NoData(ByLanguage[j])
                             /\ ByLanguage[j].wer =
                                   FmtAvg(SumWer(results[system], recs), Cardinality(recs))
                             /\ ByLanguage[j].cer =
                                   FmtAvg(SumCer(results[system], recs), Cardinality(recs))

C10_Witness ==
    /\ pc = "done"
    /\ RecordsOf("skywalk", EN) # {}
    /\ RecordsOf("nothing", EN) = {}
    /\ \E i \in LangIdx :
          /\ ByLanguage[i].language = EN
          /\ \E j \in BlockOf(i) : ByLanguage[j].kind = "skywalk"
          /\ \A j \in BlockOf(i) : ByLanguage[j].kind # "nothing"

\* ------------------------------------------------------------------ demo_simple_asr.py

\* DemoSimpleASR.reference_texts
reference_texts == (EN :> PhraseEN) @@ (CN :> PhraseCN) @@ (SV :> PhraseSV)

\* the language_map of detect_language_from_filename
demo_language_map == ("A" :> EN) @@ ("B" :> EN) @@ ("C" :> CN) @@ ("D" :> SV)

\* DemoSimpleASR.detect_language_from_filename
detect_language_from_filename(filename) ==
    LET name == upper(stem(filename))
    IN  IF Len(name) >= 1 THEN Get(demo_language_map, name[1], EN) ELSE EN

\* the three passages process_audio_file writes out as simulated transcriptions
SimulatedEN == <<"H", "e", "y", ",">>
SimulatedCN == <<"g", "a", "n", "g">>
SimulatedSV == <<"F", "i", "c", "k">>

\* the fixed text process_audio_file gives outside demo mode
RealModeText == <<"D", "e", "m", "o">>

\* the simulated transcription process_audio_file picks for a file name
simulated_transcription(name) ==
    IF IsIn("A", name) THEN SimulatedEN
    ELSE IF IsIn("C", name) THEN SimulatedCN
    ELSE SimulatedSV

\* DemoSimpleASR.compute_wer
demo_compute_wer(reference, hypothesis, jiwer) ==
    IF jiwer.raise THEN ONE
    ELSE IF transformation(reference) = <<>> THEN ONE
    ELSE jiwer.value

\* DemoSimpleASR.compute_cer
demo_compute_cer(reference, hypothesis, jiwer) ==
    IF jiwer.raise THEN ONE
    ELSE IF transformation(reference) = <<>> THEN ONE
    ELSE jiwer.value

\* Python's None for an optional value: <<>> is None, <<v>> is the value v
None == <<>>

\* DemoSimpleASR.process_audio_file: None, or the dictionary of the file
process_audio_file(audio_path, reference, demo_mode, exists, jiwer_wer, jiwer_cer) ==
    IF ~exists /\ ~demo_mode THEN None
    ELSE
        LET language == detect_language_from_filename(audio_path)
            reference_text_ == IF reference = None
                               THEN Get(reference_texts, language, reference_texts[EN])
                               ELSE reference[1]
            transcription == IF demo_mode THEN simulated_transcription(audio_path)
                             ELSE RealModeText
        IN  <<[filename       |-> audio_path,
               reference_text |-> reference_text_,
               transcription  |-> transcription,
               wer            |-> demo_compute_wer(reference_text_, transcription, jiwer_wer),
               cer            |-> demo_compute_cer(reference_text_, transcription, jiwer_cer),
               demo_mode      |-> demo_mode]>>

\* the file names given on the command line in the demo runs
DemoAlphabet == {"A", "B", "C", "D", "a"}
DemoFileNames ==
    {FileName(b, WAV) : b \in UNION {[1..n -> DemoAlphabet] : n \in 1..MaxStem}}

\* the command lines of the demo runs, with whether the file exists
DemoCommandLines ==
    [audio_file : DemoFileNames,
     reference  : {None, <<PhraseSV>>},
     output     : BOOLEAN,
     demo       : BOOLEAN,
     exists     : BOOLEAN]

InitDemo ==
    /\ cx_filename = <<>>
    /\ cx_parsed = <<>>
    /\ cx_validated = <<>>
    /\ cx_done = {}
    /\ InitEvalIdle
    /\ InitOrderIdle
    /\ demo_args \in DemoCommandLines
    /\ demo_pc = "start"
    /\ demo_results = None
    /\ demo_output = <<>>
    /\ demo_exit = <<>>

\* main of demo_simple_asr.py up to the dependency check: sys.exit(1) when
\* the import fails
DemoCheckDependencies ==
    /\ demo_pc = "start"
    /\ \E available \in BOOLEAN :
          /\ demo_pc' = IF available THEN "process" ELSE "exited"
          /\ demo_exit' = IF available THEN demo_exit ELSE <<1>>
    /\ UNCHANGED <<demo_args, demo_results, demo_output>>
    /\ UNCHANGED <<codec_vars, eval_vars, order_vars>>

\* main calls process_audio_file: sys.exit(1) when it returns None
DemoProcessAudioFile ==
    /\ demo_pc = "process"
    /\ \E jiwer_wer \in JiwerOutcomes, jiwer_cer \in JiwerOutcomes :
          demo_results' = process_audio_file(demo_args.audio_file, demo_args.reference,
                                             demo_args.demo, demo_args.exists,
                                             jiwer_wer, jiwer_cer)
    /\ demo_pc' = IF demo_results' = None THEN "exited" ELSE "print"
    /\ demo_exit' = IF demo_results' = None THEN <<1>> ELSE demo_exit
    /\ UNCHANGED <<demo_args, demo_output>>
    /\ UNCHANGED <<codec_vars, eval_vars, order_vars>>

\* main prints the results, writes them to --output when it is given, and ends
DemoPrintAndSave ==
    /\ demo_pc = "print"
    /\ demo_output' = IF demo_args.output THEN demo_results ELSE <<>>
    /\ demo_pc' = "exited"
    /\ demo_exit' = <<0>>
    /\ UNCHANGED <<demo_args, demo_results>>
    /\ UNCHANGED <<codec_vars, eval_vars, order_vars>>

NextDemo ==
    \/ DemoCheckDependencies
    \/ DemoProcessAudioFile
    \/ DemoPrintAndSave

SpecDemo == InitDemo /\ [][NextDemo]_vars

\* ------------------------------------------------------------------ C11

\* the batch run ended after its dependency check failed
BatchDependencyMissing == pc = "failed"

\* the batch run evaluated no unit and wrote neither file
NothingEvaluated ==
    /\ results = [skywalk |-> <<>>, nothing |-> <<>>]
    /\ system_results = <<>>
    /\ last = NoUnit
    /\ enc_test_report = <<>>
    /\ enc_test_results = <<>>

\* C11: a batch run whose dependency check failed ends with a non-zero exit
\* code, having evaluated no unit and written neither the report nor the
\* results document; every other run that ended has exit code 0.
C11_MissingDependencyAborts ==
    exit_code # <<>> =>
        /\ BatchDependencyMissing => exit_code[1] # 0 /\ NothingEvaluated
        /\ ~BatchDependencyMissing => exit_code[1] = 0

\* C11, the part the batch mode does: a failed dependency check ends the run
\* with nothing evaluated and nothing written, and a run that went through
\* ends with exit code 0 after both files are written.
C11_BatchNothingWritten ==
    exit_code # <<>> =>
        /\ BatchDependencyMissing => NothingEvaluated
        /\ ~BatchDependencyMissing =>
              exit_code[1] = 0 /\ enc_test_report # <<>> /\ enc_test_results # <<>>

\* C11, the demo mode: a failed dependency check ends the process with exit
\* code 1 before any file is processed or written.
C11_DemoDependencyAborts ==
    (demo_pc = "exited" /\ demo_results = None /\ (demo_args.exists \/ demo_args.demo)) =>
        demo_exit = <<1>> /\ demo_output = <<>>

\* ------------------------------------------------------------------ order runs

\* The runs of run_evaluation in which both system directories hold the same
\* units and the collaborators answer the same for a unit each time it is
\* processed. The list get_audio_files returns is recorded for each system.

OrderNames ==
    {FileName(<<"A","A","A">>, WAV),
     FileName(<<"a","a","a">>, WAV),
     FileName(<<"a","a","a">>, MP3),
     FileName(<<"B","A","A">>, WAV),
     FileName(<<"X","A","A">>, M4A)}

OrderDirectories == {D \in SUBSET OrderNames : D # {} /\ Cardinality(D) <= MaxFiles}

\* what the collaborators may answer for a unit
UnitAnswers(audio_file) ==
    UNION {{[whisper |-> whisper, jiwer_wer |-> jiwer_wer, jiwer_cer |-> jiwer_cer] :
                jiwer_wer \in JiwerAnswers(audio_file, whisper),
                jiwer_cer \in JiwerAnswers(audio_file, whisper)} :
           whisper \in WhisperAnswers(audio_file)}

\* the answers of the collaborators for every unit of a directory
RECURSIVE DirectoryAnswers(_)
DirectoryAnswers(D) ==
    IF D = {} THEN {<<>>}
    ELSE LET f == CHOOSE g \in D : TRUE
         IN  {(f :> u) @@ a : u \in UnitAnswers(f), a \in DirectoryAnswers(D \ {f})}

InitOrder ==
    /\ cx_filename = <<>>
    /\ cx_parsed = <<>>
    /\ cx_validated = <<>>
    /\ cx_done = {}
    /\ InitEvalIdle
    /\ InitDemoIdle
    /\ listing = [skywalk |-> <<>>, nothing |-> <<>>]
    /\ \E D \in OrderDirectories : answers \in DirectoryAnswers(D)

\* evaluate_system up to its loop, over the directory of the order runs
OrderEvaluateSystem ==
    /\ pc = "evaluate"
    /\ audio_files' \in get_audio_files(TRUE, DOMAIN answers)
    /\ listing' = [listing EXCEPT ![Systems[system_index]] = audio_files']
    /\ system_results' = <<>>
    /\ pc' = "loop"
    /\ UNCHANGED <<system_index, results, last, enc_test_report, enc_test_results,
                   exit_code, answers>>
    /\ UNCHANGED <<codec_vars, demo_vars>>

\* one pass of the loop of evaluate_system, the collaborators answering as
\* they do for this unit
OrderProcessUnit ==
    /\ pc = "loop"
    /\ audio_files # <<>>
    /\ LET audio_file == Head(audio_files)
           a == answers[audio_file]
       IN  /\ system_results' =
                 evaluate_unit(system_results, audio_file, a.whisper, a.jiwer_wer, a.jiwer_cer)
           /\ last' = UnitLog(audio_file, a.whisper, a.jiwer_wer, a.jiwer_cer)
    /\ audio_files' = Tail(audio_files)
    /\ UNCHANGED <<pc, system_index, results, enc_test_report, enc_test_results,
                   exit_code>>
    /\ UNCHANGED <<codec_vars, order_vars, demo_vars>>

NextOrder ==
    \/ CheckDependencies
    \/ OrderEvaluateSystem
    \/ OrderProcessUnit
    \/ StoreSystemResults
    \/ GenerateReport
    \/ SaveResults

SpecOrder == InitOrder /\ [][NextOrder]_vars

\* ------------------------------------------------------------------ C12

\* the unit of the directory is scored
Scored(f) == UnitStep(f, answers[f].whisper) = "scored"

\* the condition key of a unit
KeyOf(f) == test_key(parse_filename(f))

\* two scored units of the directory decode to the condition key k
SharedKey(k) ==
    \E f, g \in DOMAIN answers :
        f # g /\ Scored(f) /\ Scored(g) /\ KeyOf(f) = k /\ KeyOf(g) = k

\* the positions of a list that hold a scored unit of key k
ScoredAt(list, k) == {i \in 1..Len(list) : Scored(list[i]) /\ KeyOf(list[i]) = k}

\* the scored unit of key k that a list holds last
LastScored(list, k) ==
    LET at == ScoredAt(list, k)
    IN  list[CHOOSE i \in at : \A j \in at : j <= i]

\* C12 as written: the two tables built from the same set of units in two
\* processing orders have the same keys and the same records, for every set
\* of units, units that encode the same condition included.
C12_OrderIndependent ==
    pc = "done" => results.skywalk = results.nothing

\* C12 amended: the two tables built from the same set of units in two
\* processing orders have the same keys, and the same record under every key
\* that only one scored unit of the set decodes to; under a key that two scored
\* units decode to, each table holds the record of the unit its order
\* processed later.
C12_OrderIndependentUnlessShared ==
    pc = "done" =>
        /\ DOMAIN results.skywalk = DOMAIN results.nothing
        /\ \A k \in DOMAIN results.skywalk :
              /\ ~SharedKey(k) => results.skywalk[k] = results.nothing[k]
              /\ \A system \in {"skywalk", "nothing"} :
                    results[system][k].filename = LastScored(listing[system], k)

C12_Witness ==
    /\ pc = "done"
    /\ listing.skywalk # listing.nothing
    /\ Cardinality(DOMAIN results.skywalk) = 2
    /\ \A k \in DOMAIN results.skywalk : ~SharedKey(k)
    /\ results.skywalk = results.nothing

\* ------------------------------------------------------------------ C13

\* the system whose loop is running
InLoop(system) == pc = "loop" /\ Systems[system_index] = system

\* the table of a system as far as it is built
TableOf(system) == IF InLoop(system) THEN system_results ELSE results[system]

\* the units of a system processed so far, in the order of processing
ProcessedOf(system) ==
    IF InLoop(system)
    THEN SubSeq(listing[system], 1, Len(listing[system]) - Len(audio_files))
    ELSE listing[system]

\* the positions of a list that hold a scored unit
ScoredIn(list) == {i \in 1..Len(list) : Scored(list[i])}

\* the line of a system in the summary of the report
SummaryOf(system) ==
    {i \in 1..Len(enc_test_report[1].summary) : enc_test_report[1].summary[i].system = system}

\* C13: a table has one record for each condition key that a scored unit
\* processed so far decodes to, and that record is the one of the unit
\* processed last among them; so the number of records never exceeds the number
\* of scored units, and "total files processed" in the report is the number of
\* distinct conditions of the table, not of scored files.
C13_OneRecordPerCondition ==
    \A system \in {"skywalk", "nothing"} :
        LET table == TableOf(system)
            processed == ProcessedOf(system)
        IN  /\ DOMAIN table = {KeyOf(processed[i]) : i \in ScoredIn(processed)}
            /\ \A k \in DOMAIN table : table[k].filename = LastScored(processed, k)
            /\ Cardinality(DOMAIN table) <= Cardinality(ScoredIn(processed))
            /\ Reported =>
                  \A i \in SummaryOf(system) :
                      enc_test_report[1].summary[i].total_files =
                          Cardinality({Triple(table[k].conditions) : k \in DOMAIN table})

C13_Witness ==
    /\ pc = "done"
    /\ Cardinality(ScoredIn(listing.skywalk)) = 2
    /\ Cardinality(DOMAIN results.skywalk) = 1
    /\ \E i \in SummaryOf("skywalk") : enc_test_report[1].summary[i].total_files = 1
    /\ \A k \in DOMAIN results.skywalk :
          results.skywalk[k].filename = listing.skywalk[Len(listing.skywalk)]

\* ------------------------------------------------------------------ C14

\* the language the tables give for the unit processed last
LastLanguage == TableLanguage(last.file[1])

\* the unit processed last decoded to a condition
LastDecoded == last.step \in {"no_reference", "no_transcription", "scored"}

\* the records of a table that come from the file
RecordsFrom(table, file) == {k \in DOMAIN table : table[k].filename = file}

\* the system has a line under the heading of the language
ShownUnder(system, language) ==
    \E i \in LangIdx :
        /\ ByLanguage[i].language = language
        /\ \E j \in BlockOf(i) : ByLanguage[j].kind = system

\* C14: a unit of language EN_ACCENT is scored against the EN passage while
\* its record keeps EN_ACCENT in its key and its condition, and the report
\* counts it under EN_ACCENT, not under EN; a unit whose normalized language
\* has no reference passage is skipped and leaves no record.
C14_AccentScoredAgainstEnglish ==
    /\ \A table \in Tables : \A k \in DOMAIN table :
          table[k].conditions.language = EN_ACCENT =>
              /\ table[k].reference = test_phrases[EN]
              /\ k = EN_ACCENT \o <<"_">> \o table[k].conditions.speech_type
                        \o <<"_">> \o table[k].conditions.background
    /\ (LastDecoded /\ LastLanguage = EN_ACCENT) =>
          /\ last.step # "no_reference"
          /\ last.step = "scored" =>
                \E k \in RecordsFrom(system_results, last.file) :
                    /\ system_results[k].conditions.language = EN_ACCENT
                    /\ system_results[k].reference = test_phrases[EN]
    /\ (LastDecoded /\ LastLanguage \notin {EN, EN_ACCENT, CN, SV}) =>
          /\ last.step = "no_reference"
          /\ RecordsFrom(system_results, last.file) = {}
    /\ Reported =>
          \A system \in {"skywalk", "nothing"} :
              /\ ShownUnder(system, EN_ACCENT) <=> RecordsOf(system, EN_ACCENT) # {}
              /\ ShownUnder(system, EN) <=> RecordsOf(system, EN) # {}

C14_Witness ==
    /\ last.step = "scored"
    /\ last.file = FileName(<<"B","A","A">>, WAV)
    /\ \E k \in RecordsFrom(system_results, last.file) :
          /\ k = EN_ACCENT \o <<"_">> \o REGULAR \o <<"_">> \o NIGHTCLUB
          /\ system_results[k].reference = PhraseEN
          /\ system_results[k].conditions.language = EN_ACCENT

\* ------------------------------------------------------------------ C15

\* run_evaluation is past both evaluations
Comparing == pc \in {"report", "save", "done"}

\* the step stores the table of the system
Stores(system) == results'[system] # results[system]

\* the step of run_evaluation keeps the order of its stages
OrderedStep ==
    /\ last' # last /\ last'.step # "none" => pc = "loop" /\ pc' = "loop"
    /\ system_index' >= system_index
    /\ system_index' # system_index => pc = "loop" /\ audio_files = <<>>
    /\ \A i \in 1..Len(Systems) :
          Stores(Systems[i]) =>
              /\ system_index = i /\ pc = "loop" /\ audio_files = <<>>
              /\ results'[Systems[i]] = system_results
    /\ pc' = "report" /\ pc # "report" => system_index = Len(Systems) /\ audio_files = <<>>
    /\ Comparing => results' = results /\ system_results' = system_results /\ last' = last
    /\ enc_test_report' # enc_test_report =>
          pc = "report" /\ enc_test_report' = <<generate_report(results')>>
    /\ enc_test_results' # enc_test_results =>
          pc = "save" /\ enc_test_report # <<>> /\ enc_test_results' = <<results'>>

\* the files hold the final tables
WrittenFromFinalTables ==
    /\ enc_test_report # <<>> => Comparing /\ enc_test_report = <<generate_report(results)>>
    /\ enc_test_results # <<>> => pc = "done" /\ enc_test_results = <<results>>
    /\ ~Comparing /\ system_index = 1 => results.nothing = <<>>

\* C15: the steps of a run are ordered: the units of the first system are all
\* processed before any unit of the second, both tables are complete before
\* the report is generated, the report and the results document are produced
\* from the final tables, evaluating the second system never changes the
\* table of the first, and no table changes once the comparison has started.
C15_StepsInOrder == []WrittenFromFinalTables /\ [][OrderedStep]_vars

C15_Witness ==
    /\ pc = "done"
    /\ results.skywalk # <<>>
    /\ results.nothing # <<>>
    /\ results.skywalk # results.nothing
    /\ enc_test_report = <<generate_report(results)>>
    /\ enc_test_results = <<results>>

\* ------------------------------------------------------------------ C16

\* the number of records a table has of a language
LanguageCount(table, language) ==
    Cardinality({k \in DOMAIN table : table[k].conditions.language = language})

\* C16: every stored record has one of the four canonical languages (a unit
\* of UNKNOWN language has no reference passage and is never stored), so the
\* four per-language groups of a table partition it: their sizes sum to the
\* number of records, and in the report every record of a system is under
\* the heading of one of the four languages.
C16_LanguagesPartition ==
    /\ \A table \in Tables :
          /\ \A k \in DOMAIN table :
                table[k].conditions.language \in {EN, EN_ACCENT, CN, SV}
          /\ LanguageCount(table, EN) + LanguageCount(table, EN_ACCENT)
                + LanguageCount(table, CN) + LanguageCount(table, SV)
             = Cardinality(DOMAIN table)
    /\ Reported =>
          \A system \in {"skywalk", "nothing"} : \A k \in DOMAIN results[system] :
              ShownUnder(system, results[system][k].conditions.language)

C16_Witness ==
    /\ last.step = "no_reference"
    /\ LastLanguage = UNKNOWN
    /\ Cardinality(DOMAIN system_results) = 1
    /\ LanguageCount(system_results, EN) = 1

\* ------------------------------------------------------------------ C17

\* the demo run processed a file with a valid 3-symbol code in demo mode, the
\* reference text left to be detected
DemoAutoDetected ==
    /\ demo_results # None
    /\ demo_args.demo
    /\ demo_args.reference = None
    /\ validate_filename(demo_args.audio_file).valid

\* the passage of the language the first symbol of the file name stands for
PassageOfFirstSymbol ==
    LET language == TableLanguage(demo_args.audio_file[1])
    IN  IF language \in {EN, EN_ACCENT} THEN PhraseEN
        ELSE IF language = CN THEN PhraseCN
        ELSE PhraseSV

\* C17: in demo mode with no explicit reference text, for every file name
\* with a valid 3-symbol code the reference text is the passage of the
\* language of the first symbol (A or B English, C Chinese, D Swedish) and
\* the simulated transcription is that same passage.
C17_DemoTranscriptionIsReference ==
    DemoAutoDetected =>
        /\ demo_results[1].reference_text = PassageOfFirstSymbol
        /\ demo_results[1].transcription = demo_results[1].reference_text

\* C17, the part the code does: the reference text is the passage of the
\* language of the first symbol.
C17_ReferenceOfFirstSymbol ==
    DemoAutoDetected => demo_results[1].reference_text = PassageOfFirstSymbol

====
